---- MODULE Spec2Model ----
(***************************************************************************)
(* Model of src/TC2/computeSales.py: one run of main(), i.e. argument      *)
(* check, load of the two JSON documents, build_price_dict, process_sales, *)
(* report printing and the write of SalesResults.txt.                      *)
(*                                                                         *)
(* Python floats are modelled as integers (prices and quantities are whole *)
(* numbers in the model), so float rounding, NaN and infinities are not    *)
(* part of the model.  An uncaught Python exception ends the interpreter   *)
(* with a traceback and exit status 1.  exit_status is meaningful once     *)
(* pc = "exit".  stdout holds one tag per message printed.                 *)
(***************************************************************************)
EXTENDS Integers, Sequences, FiniteSets, TLC

(* ---------------------------- bounds ----------------------------------- *)
MaxCatalogue == 2
MaxSales == 2

(* ------------------------- parsed JSON values -------------------------- *)
\* A field value as returned by dict.get(): None when the key is absent or
\* the JSON value is null, a number, a string, or a nested array.
None == [tag |-> "none", n |-> 0, s |-> ""]
Num(k) == [tag |-> "num", n |-> k, s |-> ""]
Str(x) == [tag |-> "str", n |-> 0, s |-> x]
ListVal == [tag |-> "list", n |-> 0, s |-> ""]

\* Strings that float() accepts, with the number they denote.
NumericStrings == {"3"}
StrAsNumber(x) == CASE x = "3" -> 3 [] OTHER -> 0

\* float(v): numbers convert to themselves, numeric strings to the number
\* they spell, other strings raise ValueError, anything else TypeError.
ToFloat(v) ==
  CASE v.tag = "num" -> [ok |-> TRUE, val |-> v.n, exc |-> "none"]
    [] v.tag = "str" /\ v.s \in NumericStrings ->
         [ok |-> TRUE, val |-> StrAsNumber(v.s), exc |-> "none"]
    [] v.tag = "str" /\ v.s \notin NumericStrings ->
         [ok |-> FALSE, val |-> 0, exc |-> "ValueError"]
    [] OTHER -> [ok |-> FALSE, val |-> 0, exc |-> "TypeError"]

\* Only hashable values can be dictionary keys; a list is not hashable.
Hashable(v) == v.tag # "list"

(* --------------------------- input documents --------------------------- *)
CatalogueEntry(t, p) == [isdict |-> TRUE, title |-> t, price |-> p]
CatalogueNonDict == [isdict |-> FALSE, title |-> None, price |-> None]
SaleRecord(p, q) == [isdict |-> TRUE, Product |-> p, Quantity |-> q]
SaleNonDict == [isdict |-> FALSE, Product |-> None, Quantity |-> None]

CatalogueObjects ==
  { CatalogueEntry(None, Num(2)),
    CatalogueEntry(Str("A"), None),
    CatalogueEntry(Str("A"), Num(2)),
    CatalogueEntry(Str("A"), Str("3")),
    CatalogueEntry(Str("A"), Str("abc")),
    CatalogueEntry(Str("B"), Num(-1)),
    CatalogueEntry(Str("A"), ListVal),
    CatalogueEntry(ListVal, Num(2)) }
CatalogueElems == CatalogueObjects \cup {CatalogueNonDict}

SaleObjects ==
  { SaleRecord(None, Num(1)),
    SaleRecord(Str("A"), None),
    SaleRecord(Str("A"), Num(2)),
    SaleRecord(Str("A"), Str("3")),
    SaleRecord(Str("A"), Str("abc")),
    SaleRecord(Str("A"), ListVal),
    SaleRecord(Str("A"), Num(-1)),
    SaleRecord(Str("B"), Num(1)),
    SaleRecord(ListVal, Num(1)) }
SaleElems == SaleObjects \cup {SaleNonDict}

SeqsUpTo(S, n) == UNION {[1..k -> S] : k \in 0..n}

\* A parsed document: a list of elements, a single object, a non-null
\* scalar, or JSON null (which json.load returns as None).
CatalogueDoc(k, items, obj) == [kind |-> k, items |-> items, obj |-> obj]
NoCatalogue == CatalogueDoc("none", <<>>, CatalogueNonDict)
CatalogueDocs ==
  {CatalogueDoc("list", it, CatalogueNonDict) : it \in SeqsUpTo(CatalogueElems, MaxCatalogue)}
  \cup {CatalogueDoc("dict", <<>>, o) : o \in CatalogueObjects}
  \cup {CatalogueDoc("scalar", <<>>, CatalogueNonDict), NoCatalogue}

SalesDoc(k, items) == [kind |-> k, items |-> items]
NoSales == SalesDoc("none", <<>>)
SalesDocs ==
  {SalesDoc("list", it) : it \in SeqsUpTo(SaleElems, MaxSales)}
  \cup {SalesDoc("dict", <<>>), SalesDoc("scalar", <<>>), NoSales}

\* What open()/json.load meet for a path: no readable file (OSError), bytes
\* that are not UTF-8 (UnicodeDecodeError), text that is not JSON
\* (JSONDecodeError), or a syntactically valid document.
FileStates == {"missing", "undecodable", "badsyntax", "valid"}

(* ------------------------------- state --------------------------------- *)
VARIABLES pc, argc, price_file, sales_file, price_data, sales_data,
          price_dict, i, total_cost, error_count, j, stdout, printed,
          results_file, exit_status, exception, raised_in

vars == <<pc, argc, price_file, sales_file, price_data, sales_data,
          price_dict, i, total_cost, error_count, j, stdout, printed,
          results_file, exit_status, exception, raised_in>>

EmptyDict == [k \in {} |-> 0]
OldResults == [written |-> FALSE, total |-> 0, errors |-> 0]

Init ==
  /\ pc = "start"
  /\ argc \in 1..4
  /\ price_file = "unread"
  /\ sales_file = "unread"
  /\ price_data = NoCatalogue
  /\ sales_data = NoSales
  /\ price_dict = EmptyDict
  /\ i = 1
  /\ total_cost = 0
  /\ error_count = 0
  /\ j = 1
  /\ stdout = <<>>
  /\ printed = FALSE
  /\ results_file = OldResults
  /\ exit_status = 0
  /\ exception = "none"
  /\ raised_in = "none"


(* ------------------------- load_json_file ------------------------------ *)
\* Result of load_json_file on a path in file state fs holding document doc:
\* the parsed document, None (with a message) on OSError/JSONDecodeError,
\* or the UnicodeDecodeError that the except clause does not catch.
load_json_file(fs, doc, none) ==
  CASE fs = "valid" -> [value |-> doc, out |-> <<>>, exc |-> "none"]
    [] fs \in {"missing", "badsyntax"} ->
         [value |-> none, out |-> <<"error_al_leer">>, exc |-> "none"]
    [] OTHER -> [value |-> none, out |-> <<>>, exc |-> "UnicodeDecodeError"]

(* ------------------------- build_price_dict ---------------------------- *)
\* Mutant of SetItem: an existing key keeps its first value (setdefault).
SetItem_KeepFirst(pd, key, val) ==
  [k \in (DOMAIN pd) \cup {key} |-> IF k \in DOMAIN pd THEN pd[k] ELSE val]

\* price_dict[title] = price
SetItem(pd, key, val) ==
  [k \in (DOMAIN pd) \cup {key} |-> IF k = key THEN val ELSE pd[k]]

\* One iteration of the loop over a catalogue list.
BuildListEntry(pd, product) ==
  IF ~product.isdict
    THEN [price_dict |-> pd, out |-> <<>>, exc |-> "AttributeError"]
  ELSE IF product.title = None \/ product.price = None
    THEN [price_dict |-> pd, out |-> <<"falta_title_o_price">>, exc |-> "none"]
  ELSE IF ToFloat(product.price).exc = "ValueError"
    THEN [price_dict |-> pd, out |-> <<"precio_invalido">>, exc |-> "none"]
  ELSE IF ToFloat(product.price).exc = "TypeError"
    THEN [price_dict |-> pd, out |-> <<>>, exc |-> "TypeError"]
  ELSE IF ~Hashable(product.title)
    THEN [price_dict |-> pd, out |-> <<>>, exc |-> "TypeError"]
  ELSE [price_dict |-> SetItem(pd, product.title, ToFloat(product.price).val),
        out |-> <<>>, exc |-> "none"]

\* The branch for a catalogue that is a single object.
BuildSingleEntry(pd, product) ==
  IF product.title = None \/ product.price = None
    THEN [price_dict |-> pd, out |-> <<"catalogo_sin_title_o_price">>, exc |-> "none"]
  ELSE IF ToFloat(product.price).exc = "ValueError"
    THEN [price_dict |-> pd, out |-> <<"precio_invalido">>, exc |-> "none"]
  ELSE IF ToFloat(product.price).exc = "TypeError"
    THEN [price_dict |-> pd, out |-> <<>>, exc |-> "TypeError"]
  ELSE IF ~Hashable(product.title)
    THEN [price_dict |-> pd, out |-> <<>>, exc |-> "TypeError"]
  ELSE [price_dict |-> SetItem(pd, product.title, ToFloat(product.price).val),
        out |-> <<>>, exc |-> "none"]

(* --------------------------- process_sales ----------------------------- *)
\* Mutant of ProcessSale: the total is assigned instead of accumulated.
ProcessSale_Overwrite(pd, sale, tc, ec) ==
  IF ~sale.isdict
    THEN [total_cost |-> tc, error_count |-> ec + 1,
          out |-> <<"registro_invalido">>, exc |-> "none"]
  ELSE IF sale.Product = None \/ sale.Quantity = None
    THEN [total_cost |-> tc, error_count |-> ec + 1,
          out |-> <<"falta_product_o_quantity">>, exc |-> "none"]
  ELSE IF ~ToFloat(sale.Quantity).ok
    THEN [total_cost |-> tc, error_count |-> ec + 1,
          out |-> <<"cantidad_invalida">>, exc |-> "none"]
  ELSE IF ~Hashable(sale.Product)
    THEN [total_cost |-> tc, error_count |-> ec, out |-> <<>>, exc |-> "TypeError"]
  ELSE IF sale.Product \notin DOMAIN pd
    THEN [total_cost |-> tc, error_count |-> ec + 1,
          out |-> <<"producto_no_encontrado">>, exc |-> "none"]
  ELSE [total_cost |-> pd[sale.Product] * ToFloat(sale.Quantity).val,
        error_count |-> ec, out |-> <<>>, exc |-> "none"]

\* Mutant of ProcessSale: an unknown product is skipped without counting it.
ProcessSale_UnknownNotCounted(pd, sale, tc, ec) ==
  IF ~sale.isdict
    THEN [total_cost |-> tc, error_count |-> ec + 1,
          out |-> <<"registro_invalido">>, exc |-> "none"]
  ELSE IF sale.Product = None \/ sale.Quantity = None
    THEN [total_cost |-> tc, error_count |-> ec + 1,
          out |-> <<"falta_product_o_quantity">>, exc |-> "none"]
  ELSE IF ~ToFloat(sale.Quantity).ok
    THEN [total_cost |-> tc, error_count |-> ec + 1,
          out |-> <<"cantidad_invalida">>, exc |-> "none"]
  ELSE IF ~Hashable(sale.Product)
    THEN [total_cost |-> tc, error_count |-> ec, out |-> <<>>, exc |-> "TypeError"]
  ELSE IF sale.Product \notin DOMAIN pd
    THEN [total_cost |-> tc, error_count |-> ec,
          out |-> <<"producto_no_encontrado">>, exc |-> "none"]
  ELSE [total_cost |-> tc + pd[sale.Product] * ToFloat(sale.Quantity).val,
        error_count |-> ec, out |-> <<>>, exc |-> "none"]

\* Mutant of ProcessSale: the amount is subtracted from the total.
ProcessSale_Subtract(pd, sale, tc, ec) ==
  IF ~sale.isdict
    THEN [total_cost |-> tc, error_count |-> ec + 1,
          out |-> <<"registro_invalido">>, exc |-> "none"]
  ELSE IF sale.Product = None \/ sale.Quantity = None
    THEN [total_cost |-> tc, error_count |-> ec + 1,
          out |-> <<"falta_product_o_quantity">>, exc |-> "none"]
  ELSE IF ~ToFloat(sale.Quantity).ok
    THEN [total_cost |-> tc, error_count |-> ec + 1,
          out |-> <<"cantidad_invalida">>, exc |-> "none"]
  ELSE IF ~Hashable(sale.Product)
    THEN [total_cost |-> tc, error_count |-> ec, out |-> <<>>, exc |-> "TypeError"]
  ELSE IF sale.Product \notin DOMAIN pd
    THEN [total_cost |-> tc, error_count |-> ec + 1,
          out |-> <<"producto_no_encontrado">>, exc |-> "none"]
  ELSE [total_cost |-> tc - pd[sale.Product] * ToFloat(sale.Quantity).val,
        error_count |-> ec, out |-> <<>>, exc |-> "none"]

\* One iteration of the loop over the sales list, from running total tc and
\* error counter ec.
ProcessSale(pd, sale, tc, ec) ==
  IF ~sale.isdict
    THEN [total_cost |-> tc, error_count |-> ec + 1,
          out |-> <<"registro_invalido">>, exc |-> "none"]
  ELSE IF sale.Product = None \/ sale.Quantity = None
    THEN [total_cost |-> tc, error_count |-> ec + 1,
          out |-> <<"falta_product_o_quantity">>, exc |-> "none"]
  ELSE IF ~ToFloat(sale.Quantity).ok
    THEN [total_cost |-> tc, error_count |-> ec + 1,
          out |-> <<"cantidad_invalida">>, exc |-> "none"]
  ELSE IF ~Hashable(sale.Product)
    THEN [total_cost |-> tc, error_count |-> ec, out |-> <<>>, exc |-> "TypeError"]
  ELSE IF sale.Product \notin DOMAIN pd
    THEN [total_cost |-> tc, error_count |-> ec + 1,
          out |-> <<"producto_no_encontrado">>, exc |-> "none"]
  ELSE [total_cost |-> tc + pd[sale.Product] * ToFloat(sale.Quantity).val,
        error_count |-> ec, out |-> <<>>, exc |-> "none"]

(* ------------------------------- main ---------------------------------- *)
\* sys.exit(1) after a message.
ExitWith(status, msgs) ==
  /\ pc' = "exit"
  /\ exit_status' = status
  /\ stdout' = stdout \o msgs

\* An exception nobody catches: traceback on stderr, exit status 1.
Uncaught(exc, where) ==
  /\ pc' = "exit"
  /\ exit_status' = 1
  /\ exception' = exc
  /\ raised_in' = where

CheckArgs ==
  /\ pc = "start"
  /\ IF argc # 3
       THEN ExitWith(1, <<"uso">>)
       ELSE /\ pc' = "load_price"
            /\ UNCHANGED <<exit_status, stdout>>
  /\ UNCHANGED <<argc, price_file, sales_file, price_data, sales_data,
                 price_dict, i, total_cost, error_count, j, printed,
                 results_file, exception, raised_in>>

LoadPrice ==
  /\ pc = "load_price"
  /\ \E fs \in FileStates, doc \in CatalogueDocs :
       LET r == load_json_file(fs, doc, NoCatalogue) IN
       /\ fs # "valid" => doc = NoCatalogue
       /\ price_file' = fs
       /\ IF r.exc # "none"
            THEN /\ Uncaught(r.exc, "load_json_file")
                 /\ UNCHANGED <<price_data, stdout>>
          ELSE IF r.value = NoCatalogue
            THEN /\ ExitWith(1, r.out \o <<"error_catalogo">>)
                 /\ UNCHANGED <<price_data, exception, raised_in>>
          ELSE /\ price_data' = r.value
               /\ pc' = "load_sales"
               /\ stdout' = stdout \o r.out
               /\ UNCHANGED <<exit_status, exception, raised_in>>
  /\ UNCHANGED <<argc, sales_file, sales_data, price_dict, i, total_cost,
                 error_count, j, printed, results_file>>

\* Mutant of LoadSales: sys.exit(1) is missing after a failed load.
LoadSales_NoExit ==
  /\ pc = "load_sales"
  /\ \E fs \in FileStates, doc \in SalesDocs :
       LET r == load_json_file(fs, doc, NoSales) IN
       /\ fs # "valid" => doc = NoSales
       /\ sales_file' = fs
       /\ IF r.exc # "none"
            THEN /\ Uncaught(r.exc, "load_json_file")
                 /\ UNCHANGED <<sales_data, stdout>>
          ELSE IF r.value = NoSales
            THEN /\ pc' = "build"
                 /\ stdout' = stdout \o r.out \o <<"error_ventas">>
                 /\ UNCHANGED <<sales_data, exit_status, exception, raised_in>>
          ELSE /\ sales_data' = r.value
               /\ pc' = "build"
               /\ stdout' = stdout \o r.out
               /\ UNCHANGED <<exit_status, exception, raised_in>>
  /\ UNCHANGED <<argc, price_file, price_data, price_dict, i, total_cost,
                 error_count, j, printed, results_file>>

LoadSales ==
  /\ pc = "load_sales"
  /\ \E fs \in FileStates, doc \in SalesDocs :
       LET r == load_json_file(fs, doc, NoSales) IN
       /\ fs # "valid" => doc = NoSales
       /\ sales_file' = fs
       /\ IF r.exc # "none"
            THEN /\ Uncaught(r.exc, "load_json_file")
                 /\ UNCHANGED <<sales_data, stdout>>
          ELSE IF r.value = NoSales
            THEN /\ ExitWith(1, r.out \o <<"error_ventas">>)
                 /\ UNCHANGED <<sales_data, exception, raised_in>>
          ELSE /\ sales_data' = r.value
               /\ pc' = "build"
               /\ stdout' = stdout \o r.out
               /\ UNCHANGED <<exit_status, exception, raised_in>>
  /\ UNCHANGED <<argc, price_file, price_data, price_dict, i, total_cost,
                 error_count, j, printed, results_file>>

\* build_price_dict, list branch: one loop iteration.
BuildList ==
  /\ pc = "build"
  /\ price_data.kind = "list"
  /\ i <= Len(price_data.items)
  /\ LET r == BuildListEntry(price_dict, price_data.items[i]) IN
       IF r.exc # "none"
         THEN /\ Uncaught(r.exc, "build_price_dict")
              /\ UNCHANGED <<price_dict, i, stdout>>
         ELSE /\ price_dict' = r.price_dict
              /\ i' = i + 1
              /\ stdout' = stdout \o r.out
              /\ UNCHANGED <<pc, exit_status, exception, raised_in>>
  /\ UNCHANGED <<argc, price_file, sales_file, price_data, sales_data,
                 total_cost, error_count, j, printed, results_file>>

\* build_price_dict, list branch: loop exhausted, return price_dict.
BuildListReturn ==
  /\ pc = "build"
  /\ price_data.kind = "list"
  /\ i > Len(price_data.items)
  /\ pc' = "sales"
  /\ UNCHANGED <<argc, price_file, sales_file, price_data, sales_data,
                 price_dict, i, total_cost, error_count, j, stdout, printed,
                 results_file, exit_status, exception, raised_in>>

\* build_price_dict, single-object branch.
BuildSingle ==
  /\ pc = "build"
  /\ price_data.kind = "dict"
  /\ LET r == BuildSingleEntry(price_dict, price_data.obj) IN
       IF r.exc # "none"
         THEN /\ Uncaught(r.exc, "build_price_dict")
              /\ UNCHANGED <<price_dict, stdout>>
         ELSE /\ price_dict' = r.price_dict
              /\ pc' = "sales"
              /\ stdout' = stdout \o r.out
              /\ UNCHANGED <<exit_status, exception, raised_in>>
  /\ UNCHANGED <<argc, price_file, sales_file, price_data, sales_data, i,
                 total_cost, error_count, j, printed, results_file>>

\* build_price_dict, neither list nor object.
BuildOther ==
  /\ pc = "build"
  /\ price_data.kind \notin {"list", "dict"}
  /\ pc' = "sales"
  /\ stdout' = Append(stdout, "formato_catalogo")
  /\ UNCHANGED <<argc, price_file, sales_file, price_data, sales_data,
                 price_dict, i, total_cost, error_count, j, printed,
                 results_file, exit_status, exception, raised_in>>

\* process_sales: sales_data is not a list.
SalesNotList ==
  /\ pc = "sales"
  /\ sales_data.kind # "list"
  /\ pc' = "report"
  /\ stdout' = Append(stdout, "ventas_no_lista")
  /\ UNCHANGED <<argc, price_file, sales_file, price_data, sales_data,
                 price_dict, i, total_cost, error_count, j, printed,
                 results_file, exit_status, exception, raised_in>>

\* process_sales: one loop iteration.
SalesStep ==
  /\ pc = "sales"
  /\ sales_data.kind = "list"
  /\ j <= Len(sales_data.items)
  /\ LET r == ProcessSale(price_dict, sales_data.items[j], total_cost, error_count) IN
       IF r.exc # "none"
         THEN /\ Uncaught(r.exc, "process_sales")
              /\ UNCHANGED <<total_cost, error_count, j, stdout>>
         ELSE /\ total_cost' = r.total_cost
              /\ error_count' = r.error_count
              /\ j' = j + 1
              /\ stdout' = stdout \o r.out
              /\ UNCHANGED <<pc, exit_status, exception, raised_in>>
  /\ UNCHANGED <<argc, price_file, sales_file, price_data, sales_data,
                 price_dict, i, printed, results_file>>

\* process_sales: loop exhausted, return (total_cost, error_count).
SalesReturn ==
  /\ pc = "sales"
  /\ sales_data.kind = "list"
  /\ j > Len(sales_data.items)
  /\ pc' = "report"
  /\ UNCHANGED <<argc, price_file, sales_file, price_data, sales_data,
                 price_dict, i, total_cost, error_count, j, stdout, printed,
                 results_file, exit_status, exception, raised_in>>

\* The report block built from total_cost and error_count.
ResultStr(tc, ec) == [written |-> TRUE, total |-> tc, errors |-> ec]

\* print(result_str)
PrintReport ==
  /\ pc = "report"
  /\ stdout' = Append(stdout, "reporte")
  /\ printed' = TRUE
  /\ pc' = "write"
  /\ UNCHANGED <<argc, price_file, sales_file, price_data, sales_data,
                 price_dict, i, total_cost, error_count, j, results_file,
                 exit_status, exception, raised_in>>

\* Mutant of WriteReport: a failed write ends the run with status 1.
WriteReport_Fatal ==
  /\ pc = "write"
  /\ \E writable \in BOOLEAN :
       IF writable
         THEN /\ results_file' = ResultStr(total_cost, error_count)
              /\ ExitWith(0, <<>>)
         ELSE /\ results_file' = results_file
              /\ ExitWith(1, <<"error_al_escribir">>)
  /\ UNCHANGED <<argc, price_file, sales_file, price_data, sales_data,
                 price_dict, i, total_cost, error_count, j, printed,
                 exception, raised_in>>

\* The write of SalesResults.txt either succeeds or raises OSError, which is
\* caught and logged; main then returns and the process exits with status 0.
WriteReport ==
  /\ pc = "write"
  /\ \E writable \in BOOLEAN :
       IF writable
         THEN /\ results_file' = ResultStr(total_cost, error_count)
              /\ ExitWith(0, <<>>)
         ELSE /\ results_file' = results_file
              /\ ExitWith(0, <<"error_al_escribir">>)
  /\ UNCHANGED <<argc, price_file, sales_file, price_data, sales_data,
                 price_dict, i, total_cost, error_count, j, printed,
                 exception, raised_in>>

Next ==
  \/ CheckArgs
  \/ LoadPrice
  \/ LoadSales
  \/ BuildList
  \/ BuildListReturn
  \/ BuildSingle
  \/ BuildOther
  \/ SalesNotList
  \/ SalesStep
  \/ SalesReturn
  \/ PrintReport
  \/ WriteReport

Spec == Init /\ [][Next]_vars

TypeOK ==
  /\ pc \in {"start", "load_price", "load_sales", "build", "sales", "report", "write", "exit"}
  /\ exit_status \in {0, 1}
  /\ error_count \in Int
  /\ total_cost \in Int

(* ===================== properties of the sales pass ==================== *)
Range(f) == {f[k] : k \in DOMAIN f}

\* A sale record the claims call valid: mapping-shaped, both fields present,
\* Quantity coercible to a number, Product a key of the catalogue mapping.
Coercible(v) == v.tag = "num" \/ (v.tag = "str" /\ v.s \in NumericStrings)
NumberOf(v) == IF v.tag = "num" THEN v.n ELSE StrAsNumber(v.s)
ValidSale(pd, sale) ==
  /\ sale.isdict
  /\ sale.Product # None
  /\ sale.Quantity # None
  /\ Coercible(sale.Quantity)
  /\ sale.Product \in DOMAIN pd

RECURSIVE SumValid(_, _)
SumValid(pd, items) ==
  IF items = <<>> THEN 0
  ELSE (IF ValidSale(pd, Head(items))
          THEN pd[Head(items).Product] * NumberOf(Head(items).Quantity)
          ELSE 0) + SumValid(pd, Tail(items))

\* The records the loop of process_sales has gone through so far.
Processed == SubSeq(sales_data.items, 1, j - 1)
InSalesPass == pc = "sales" /\ sales_data.kind = "list"
SalesReturned == pc \in {"report", "write"} \/ (pc = "exit" /\ printed)

\* C1: the running total of process_sales is the sum of price * Quantity
\* over exactly the valid records processed so far, every other record
\* having added nothing to it and one to error_count; the returned total is
\* that sum over the whole sales sequence.
C1_TotalIsSumOverValidSales ==
  /\ (InSalesPass \/ (SalesReturned /\ sales_data.kind = "list")) =>
       /\ total_cost = SumValid(price_dict, Processed)
       /\ error_count =
            Cardinality({k \in 1..(j - 1) : ~ValidSale(price_dict, sales_data.items[k])})
  /\ (SalesReturned /\ sales_data.kind = "list") =>
       total_cost = SumValid(price_dict, sales_data.items)

C1_Witness ==
  /\ pc = "report"
  /\ sales_data.kind = "list"
  /\ total_cost # 0
  /\ \E k \in 1..Len(sales_data.items) : ~ValidSale(price_dict, sales_data.items[k])
  /\ \E k \in 1..Len(sales_data.items) :
       /\ ValidSale(price_dict, sales_data.items[k])
       /\ sales_data.items[k].Quantity.tag = "str"

\* The four reasons for which a sale record is rejected.
NotMapping(sale) == ~sale.isdict
MissingField(sale) == sale.isdict /\ (sale.Product = None \/ sale.Quantity = None)
BadQuantity(sale) ==
  sale.isdict /\ sale.Product # None /\ sale.Quantity # None /\ ~Coercible(sale.Quantity)
UnknownProduct(pd, sale) ==
  /\ sale.isdict /\ sale.Product # None /\ sale.Quantity # None
  /\ Coercible(sale.Quantity)
  /\ sale.Product \notin DOMAIN pd
Rejected(pd, sale) ==
  NotMapping(sale) \/ MissingField(sale) \/ BadQuantity(sale) \/ UnknownProduct(pd, sale)

\* Catalogue entries build_price_dict logged and skipped.
CatalogueRejections ==
  Cardinality({k \in 1..Len(stdout) :
     stdout[k] \in {"falta_title_o_price", "precio_invalido", "catalogo_sin_title_o_price"}})
SaleRejections ==
  Cardinality({k \in 1..Len(stdout) :
     stdout[k] \in {"registro_invalido", "falta_product_o_quantity",
                    "cantidad_invalida", "producto_no_encontrado"}})

\* C2: the error_count returned by process_sales is the number of sale
\* records rejected for one of the four reasons, accepted records plus
\* error_count is the number of sale records, and the catalogue entries
\* build_price_dict rejected are not in the count.
C2_ErrorCountIsRejectedSales ==
  (SalesReturned /\ sales_data.kind = "list") =>
    /\ error_count =
         Cardinality({k \in 1..Len(sales_data.items) : Rejected(price_dict, sales_data.items[k])})
    /\ error_count +
         Cardinality({k \in 1..Len(sales_data.items) : ValidSale(price_dict, sales_data.items[k])})
         = Len(sales_data.items)
    /\ error_count = SaleRejections

C2_Witness ==
  /\ pc = "report"
  /\ sales_data.kind = "list"
  /\ CatalogueRejections > 0
  /\ error_count = 1
  /\ Len(sales_data.items) = 2

(* ========================= properties of main ========================== *)
Unreadable(fs) == fs \in {"missing", "undecodable", "badsyntax"}

\* C3: a run ends with status 1 exactly when the argument count is wrong or
\* one of the two files is unreadable or not valid JSON, and load_json_file
\* never lets an exception out.
C3_StatusOneIffBadArgsOrFile ==
  /\ pc = "exit" =>
       (exit_status = 1 <=> (argc # 3 \/ Unreadable(price_file) \/ Unreadable(sales_file)))
  /\ raised_in # "load_json_file"

(* ==================== properties of build_price_dict =================== *)
ValidEntry(e) ==
  e.isdict /\ e.title # None /\ e.price # None /\ Coercible(e.price)
BuildReturned == pc \in {"sales", "report", "write"} \/ (pc = "exit" /\ printed)

\* C4: over a catalogue list build_price_dict surfaces no exception, goes
\* through every element, and every valid element ends up in the mapping.
C4_BuildListNeverRaises ==
  price_data.kind = "list" =>
    /\ raised_in # "build_price_dict"
    /\ BuildReturned =>
         /\ i = Len(price_data.items) + 1
         /\ \A k \in 1..Len(price_data.items) :
              ValidEntry(price_data.items[k]) =>
                price_data.items[k].title \in DOMAIN price_dict

\* C5: over a sales list process_sales surfaces no exception and returns
\* after going through every record.
C5_ProcessSalesNeverRaises ==
  sales_data.kind = "list" =>
    /\ raised_in # "process_sales"
    /\ SalesReturned => j = Len(sales_data.items) + 1

\* Positions of the catalogue list holding an object with title t.
Occurrences(t) ==
  {k \in 1..Len(price_data.items) :
     price_data.items[k].isdict /\ price_data.items[k].title = t}
ValidOccurrences(t) == {k \in Occurrences(t) : ValidEntry(price_data.items[k])}
Last(S) == CHOOSE k \in S : \A m \in S : m <= k
Titles == {price_data.items[k].title : k \in 1..Len(price_data.items)} \ {None}

\* C6 as stated: a title occurring more than once in the catalogue list maps
\* to the price of its last occurrence.
C6_LastOccurrenceWins ==
  (BuildReturned /\ price_data.kind = "list") =>
    \A t \in Titles :
      Cardinality(Occurrences(t)) > 1 =>
        /\ t \in DOMAIN price_dict
        /\ Coercible(price_data.items[Last(Occurrences(t))].price)
        /\ price_dict[t] = NumberOf(price_data.items[Last(Occurrences(t))].price)

\* C6 amended: a title occurring more than once maps to the price of its
\* last occurrence that has a numeric price, and is absent from the mapping
\* when no occurrence has one.
C6_LastValidOccurrenceWins ==
  (BuildReturned /\ price_data.kind = "list") =>
    \A t \in Titles :
      Cardinality(Occurrences(t)) > 1 =>
        IF ValidOccurrences(t) = {}
          THEN t \notin DOMAIN price_dict
          ELSE /\ t \in DOMAIN price_dict
               /\ price_dict[t] = NumberOf(price_data.items[Last(ValidOccurrences(t))].price)

C6_Witness ==
  /\ pc = "sales"
  /\ price_data.kind = "list"
  /\ \E t \in Titles :
       /\ Cardinality(ValidOccurrences(t)) > 1
       /\ \E k \in ValidOccurrences(t) :
            NumberOf(price_data.items[k].price) # price_dict[t]

(* ===================== properties of report emission =================== *)
PriceLoadFailed == price_file # "unread" /\ price_data = NoCatalogue
SalesLoadFailed == sales_file # "unread" /\ sales_data = NoSales
SalesPassCompleted ==
  sales_data.kind = "list" => j = Len(sales_data.items) + 1

\* C7: a wrong argument count or a failed load ends the run with status 1,
\* nothing of the report printed and SalesResults.txt untouched; the file is
\* written only after both loads and the sales pass.
C7_FatalPathsLeaveNoReport ==
  /\ (argc # 3 \/ PriceLoadFailed \/ SalesLoadFailed) =>
       /\ pc \in {"start", "exit"}
       /\ pc = "exit" => exit_status = 1
       /\ ~printed
       /\ "reporte" \notin Range(stdout)
       /\ results_file = OldResults
  /\ (pc = "exit" /\ exit_status = 1) => (~printed /\ results_file = OldResults)
  /\ results_file # OldResults =>
       /\ price_file = "valid" /\ price_data # NoCatalogue
       /\ sales_file = "valid" /\ sales_data # NoSales
       /\ SalesPassCompleted
       /\ pc = "exit"

C7_Witness ==
  /\ pc = "exit"
  /\ exit_status = 1
  /\ argc = 3
  /\ price_file = "valid"
  /\ SalesLoadFailed
  /\ raised_in = "none"

\* C8: the report is on the console before the write of SalesResults.txt is
\* attempted, a failed write is only logged, and a run that reached report
\* emission ends with status 0 whatever error_count is.
C8_PrintedBeforeWriteAndStatusZero ==
  /\ pc = "write" => (printed /\ stdout[Len(stdout)] = "reporte")
  /\ (results_file # OldResults \/ "error_al_escribir" \in Range(stdout)) => printed
  /\ \A k \in 1..Len(stdout) :
       stdout[k] = "error_al_escribir" => \E m \in 1..(k - 1) : stdout[m] = "reporte"
  /\ (pc = "exit" /\ printed) => exit_status = 0

C8_Witness ==
  /\ pc = "exit"
  /\ "error_al_escribir" \in Range(stdout)
  /\ results_file = OldResults
  /\ error_count > 0
  /\ exit_status = 0

\* C9: a run whose sales document parsed to something that is not a list
\* is not fatal: it ends with status 0 after emitting the report with total
\* 0 and 0 errors.
C9_NonListSalesNotFatal ==
  (pc = "exit" /\ sales_file = "valid" /\ sales_data.kind # "list") =>
    /\ exit_status = 0
    /\ printed
    /\ total_cost = 0
    /\ error_count = 0

\* C10 as stated: total_cost, error_count and every stored price are never
\* negative.
C10_NeverNegative ==
  /\ total_cost >= 0
  /\ error_count >= 0
  /\ \A t \in DOMAIN price_dict : price_dict[t] >= 0

\* C10 amended: error_count is never negative, and total_cost is never
\* negative when every stored price and every accepted quantity is
\* non-negative.
C10_NonNegativeForNonNegativeInputs ==
  /\ error_count \in Nat
  /\ ( /\ \A t \in DOMAIN price_dict : price_dict[t] >= 0
       /\ sales_data.kind = "list" =>
            \A k \in 1..(j - 1) :
              ValidSale(price_dict, sales_data.items[k]) =>
                NumberOf(sales_data.items[k].Quantity) >= 0 )
     => total_cost >= 0

C10_Witness ==
  /\ pc = "report"
  /\ total_cost > 0
  /\ error_count > 0
  /\ DOMAIN price_dict # {}
  /\ \A t \in DOMAIN price_dict : price_dict[t] >= 0

====
